---- MODULE Spec2Model ----
(***************************************************************************)
(* A model of locust_compare.py: LocustComparer (compare, render_report,    *)
(* validate) and main.                                                      *)
(*                                                                          *)
(* Strings are sequences of tokens, so that the f-string                    *)
(* f'{column_name}_new' and str.split(';') are computed and not assumed.    *)
(* Floating point values are records: a finite number n/d (d > 0), NaN,     *)
(* +inf or -inf, compared as IEEE 754 compares them.  The model follows the *)
(* pandas the script was written for (Series.append exists, an outer merge  *)
(* sorts the join keys, true division of numbers by zero gives +-inf or     *)
(* NaN and raises nothing).                                                 *)
(***************************************************************************)
EXTENDS Integers, Sequences, FiniteSets, TLC

VARIABLES
    previous,           \* the file args.previous names: a report, or NoFile
    current,            \* the file args.current names: a report, or NoFile
    threshold,          \* args.threshold, a float
    column_name,        \* args.column_name, a string
    pc,                 \* main's position: "compare", "render", "validate", "exit"
    i,                  \* the for loop of main: the next column, 1-based
    results,            \* main's local results, a Series
    comparison_tables,  \* LocustComparer._comparison_tables
    output_file,        \* the file args.output names: NotWritten, or what was written
    stdout,             \* what print() wrote
    stderr,             \* the message of sys.exit(msg), or the uncaught exception
    raised,             \* the uncaught exception that ended the run, or "none"
    verdict,            \* the branch validate took, or "none"
    exit_code,          \* the process exit status, or Running
    render_calls,       \* history: the number of calls of render_report
    rendered_tables     \* history: _comparison_tables when render_report was called

vars == <<previous, current, threshold, column_name, pc, i, results,
          comparison_tables, output_file, stdout, stderr, raised, verdict,
          exit_code, render_calls, rendered_tables>>

(***************************************************************************)
(* Bounds of the model.                                                     *)
(***************************************************************************)
\* The longest list of columns in --column-name.
MaxCols == 2
\* The most rows (join keys) of a report in the runs that vary the rows.
MaxKeys == 2

(***************************************************************************)
(* Floats.                                                                  *)
(***************************************************************************)
Num(n, d) == [kind |-> "num", n |-> n, d |-> d]
NaN == [kind |-> "nan", n |-> 0, d |-> 1]
Inf == [kind |-> "inf", n |-> 1, d |-> 1]
NegInf == [kind |-> "ninf", n |-> -1, d |-> 1]

\* a <= b on floats: false when either is NaN.
FloatLe(a, b) ==
    IF a.kind = "nan" \/ b.kind = "nan" THEN FALSE
    ELSE IF a.kind = "ninf" \/ b.kind = "inf" THEN TRUE
    ELSE IF a.kind = "inf" \/ b.kind = "ninf" THEN FALSE
    ELSE a.n * b.d <= b.n * a.d

\* a > b on floats: false when either is NaN.
FloatGt(a, b) ==
    IF a.kind = "nan" \/ b.kind = "nan" THEN FALSE
    ELSE IF a.kind = "ninf" \/ b.kind = "inf" THEN FALSE
    ELSE IF a.kind = "inf" \/ b.kind = "ninf" THEN TRUE
    ELSE a.n * b.d > b.n * a.d

\* A variant of TrueDiv in which every division by zero gives NaN.
TrueDivZeroIsNaN(c, p) ==
    IF c.kind = "nan" \/ p.kind = "nan" \/ p.n = 0 THEN NaN
    ELSE IF c.d * p.n > 0
         THEN Num(c.n * p.d, c.d * p.n)
         ELSE Num(-(c.n * p.d), -(c.d * p.n))

\* The element c / p of the division of two columns (cells are finite or NaN).
TrueDiv(c, p) ==
    IF c.kind = "nan" \/ p.kind = "nan" THEN NaN
    ELSE IF p.n = 0
         THEN IF c.n = 0 THEN NaN ELSE IF c.n > 0 THEN Inf ELSE NegInf
         ELSE IF c.d * p.n > 0
              THEN Num(c.n * p.d, c.d * p.n)
              ELSE Num(-(c.n * p.d), -(c.d * p.n))

(***************************************************************************)
(* Strings and the builtins used.                                           *)
(***************************************************************************)
new_suffix == <<"_new">>
old_suffix == <<"_old">>
Separator == ";"

RECURSIVE SplitFrom(_, _, _)
\* str.split(sep) of the tokens s, cur being the field read so far.
SplitFrom(s, sep, cur) ==
    IF s = <<>> THEN <<cur>>
    ELSE IF Head(s) = sep
         THEN <<cur>> \o SplitFrom(Tail(s), sep, <<>>)
         ELSE SplitFrom(Tail(s), sep, Append(cur, Head(s)))

Split(s, sep) == SplitFrom(s, sep, <<>>)

\* A variant of all in which the empty sequence is not accepted.
allNonEmpty(bs) == bs # <<>> /\ \A j \in DOMAIN bs : bs[j]

\* all(...) and any(...) of a sequence of booleans.
all(bs) == \A j \in DOMAIN bs : bs[j]
any(bs) == \E j \in DOMAIN bs : bs[j]

\* The exit status of sys.exit(arg): 0 for no argument, 1 for a message.
None == "None"
\* A variant of SysExit in which a message does not change the status.
SysExitZero(arg) == 0


SysExit(arg) == IF arg = None THEN 0 ELSE 1

\* The exit status of the interpreter after an uncaught exception.
UncaughtExit == 1

(***************************************************************************)
(* Reports and the outer merge.                                             *)
(***************************************************************************)
\* A path that names no readable file, and an output not written.
NoFile == [exists |-> FALSE]
NotWritten == [written |-> FALSE]
Running == -1

\* The join keys (Type, Name), in lexicographic order.
KeyList == << <<"GET", "/a">>, <<"GET", "/b">>, <<"POST", "/a">>, <<"POST", "/b">> >>
KeyRank(k) == CHOOSE r \in DOMAIN KeyList : KeyList[r] = k

RECURSIVE SortKeys(_)
\* The keys of S as a sequence in lexicographic order.
SortKeys(S) ==
    IF S = {} THEN <<>>
    ELSE LET k == CHOOSE x \in S : \A y \in S : KeyRank(x) <= KeyRank(y)
         IN <<k>> \o SortKeys(S \ {k})

\* A variant of MergedKeys: the inner join.
InnerKeys(new_df, old_df) == DOMAIN new_df.rows \cap DOMAIN old_df.rows

\* The keys of the rows of pd.merge(..., how='outer').
MergedKeys(new_df, old_df) == DOMAIN new_df.rows \cup DOMAIN old_df.rows

\* The name of column c of one side in the merged frame: the suffix is added
\* only to a column both sides have.
MergedName(c, suffix, overlap) == IF c \in overlap THEN c \o suffix ELSE c

\* pd.merge(new_df, old_df, on=['Type', 'Name'], how='outer',
\*          suffixes=('_new', '_old')): the index is the sorted keys, and each
\* column holds the side's cell, or NaN where the side has no such row.
Merge(new_df, old_df) ==
    LET overlap == new_df.columns \cap old_df.columns
        origins == {[name |-> MergedName(c, new_suffix, overlap), side |-> "new", col |-> c] :
                        c \in new_df.columns}
                   \cup
                   {[name |-> MergedName(c, old_suffix, overlap), side |-> "old", col |-> c] :
                        c \in old_df.columns}
        keys == SortKeys(MergedKeys(new_df, old_df))
        Cell(o, k) == LET df == IF o.side = "new" THEN new_df ELSE old_df
                      IN IF k \in DOMAIN df.rows THEN df.rows[k][o.col] ELSE NaN
    IN [keys |-> keys,
        columns |-> [nm \in {o.name : o \in origins} |->
                        LET o == CHOOSE x \in origins : x.name = nm
                        IN [j \in DOMAIN keys |-> Cell(o, keys[j])]]]

\* A variant of TablesAppend that keeps only the last table.
TablesOverwrite(tables, t) == <<t>>

\* list.append on _comparison_tables.
TablesAppend(tables, t) == Append(tables, t)

\* A variant of SeriesAppend that keeps only the last column's ratios.
SeriesKeepLast(a, b) == b

\* Series.append: the concatenation.
SeriesAppend(a, b) == a \o b

\* LocustComparer.compare(column): the exception it raises or "none", the
\* table it appends and the Series it returns.
compare(column) ==
    LET cn == column \o new_suffix
        co == column \o old_suffix
    IN IF current = NoFile \/ previous = NoFile
       THEN [raised |-> "FileNotFoundError", table |-> <<>>, returned |-> <<>>]
       ELSE LET merged_df == Merge(current, previous)
            IN IF ~ {cn, co} \subseteq DOMAIN merged_df.columns
               THEN [raised |-> "KeyError", table |-> <<>>, returned |-> <<>>]
               ELSE LET n == Len(merged_df.keys)
                        ratio == [j \in 1..n |->
                                    TrueDiv(merged_df.columns[cn][j], merged_df.columns[co][j])]
                    IN [raised |-> "none",
                        table |-> [title |-> column,
                                   body |-> [j \in 1..n |->
                                       [Type |-> merged_df.keys[j][1],
                                        Name |-> merged_df.keys[j][2],
                                        new |-> merged_df.columns[cn][j],
                                        old |-> merged_df.columns[co][j],
                                        Results |-> ratio[j]]]],
                        returned |-> [j \in 1..n |->
                                        [index |-> <<column, j - 1>>, value |-> ratio[j]]]]

\* A variant of validate that compares with < in its first branch.
validateStrict(res, t) ==
    IF all([j \in DOMAIN res |-> ~ FloatLe(t, res[j].value) /\ FloatLe(res[j].value, t)])
    THEN [verdict |-> "Pass", arg |-> None]
    ELSE IF any([j \in DOMAIN res |-> FloatGt(res[j].value, t)])
         THEN [verdict |-> "Fail",
               arg |-> "Some of the requests are above the given threshold factor!"]
         ELSE [verdict |-> "Indeterminate", arg |-> "An error occurred!"]

\* A variant of validate that skips the NaN ratios in its first branch.
validateSkipNaN(res, t) ==
    IF all([j \in DOMAIN res |-> res[j].value.kind = "nan" \/ FloatLe(res[j].value, t)])
    THEN [verdict |-> "Pass", arg |-> None]
    ELSE IF any([j \in DOMAIN res |-> FloatGt(res[j].value, t)])
         THEN [verdict |-> "Fail",
               arg |-> "Some of the requests are above the given threshold factor!"]
         ELSE [verdict |-> "Indeterminate", arg |-> "An error occurred!"]

\* A variant of validate without its second branch.
validateNoElif(res, t) ==
    IF all([j \in DOMAIN res |-> FloatLe(res[j].value, t)])
    THEN [verdict |-> "Pass", arg |-> None]
    ELSE [verdict |-> "Indeterminate", arg |-> "An error occurred!"]

\* LocustComparer.validate(results): the branch taken and the argument of sys.exit.
validate(res, t) ==
    IF all([j \in DOMAIN res |-> FloatLe(res[j].value, t)])
    THEN [verdict |-> "Pass", arg |-> None]
    ELSE IF any([j \in DOMAIN res |-> FloatGt(res[j].value, t)])
         THEN [verdict |-> "Fail",
               arg |-> "Some of the requests are above the given threshold factor!"]
         ELSE [verdict |-> "Indeterminate", arg |-> "An error occurred!"]

\* args.column_name.split(';')
columns == Split(column_name, Separator)

(***************************************************************************)
(* The inputs.                                                              *)
(***************************************************************************)
A == <<"A">>
B == <<"B">>

\* The cells of a report: numbers.
CellValues == {Num(v, 1) : v \in {-1, 0, 1, 2}}

\* The value columns of a report (Type and Name are always there).
Schemas == {{}, {A}, {B}, {A, B}, {A \o new_suffix}, {A \o old_suffix}}

\* --threshold: the default 1.0, 0.5, and nan, which float() accepts.
Thresholds == {Num(1, 1), Num(1, 2), NaN}

KeysUpTo(n) == {KeyList[r] : r \in 1..n}

\* The reports over the given schemas and keys; the keys of a report are unique.
Reports(schemas, keys) ==
    UNION {UNION {{[columns |-> s, rows |-> f] : f \in [K -> [s -> CellValues]]} :
                K \in SUBSET keys} : s \in schemas}

RECURSIVE Join(_)
\* The names of cs joined by ';'.
Join(cs) == IF Len(cs) = 1 THEN cs[1] ELSE cs[1] \o <<Separator>> \o Join(Tail(cs))

ColumnArgs == {Join(cs) : cs \in UNION {[1..n -> {A, B}] : n \in 1..MaxCols}}

\* Runs that vary the schemas and the list of columns, over reports of at most one row.
InitColumns ==
    /\ previous \in Reports(Schemas, KeysUpTo(1)) \cup {NoFile}
    /\ current \in Reports(Schemas, KeysUpTo(1)) \cup {NoFile}
    /\ column_name \in ColumnArgs

\* Runs that vary the rows, over one column both reports have.
InitRows ==
    /\ previous \in Reports({{A}}, KeysUpTo(MaxKeys))
    /\ current \in Reports({{A}}, KeysUpTo(MaxKeys))
    /\ column_name = A

\* main up to the for loop: the arguments are parsed, the comparer is built
\* and results is the empty Series.
Init ==
    /\ InitColumns \/ InitRows
    /\ threshold \in Thresholds
    /\ pc = "compare"
    /\ i = 1
    /\ results = <<>>
    /\ comparison_tables = <<>>
    /\ output_file = NotWritten
    /\ stdout = <<>>
    /\ stderr = <<>>
    /\ raised = "none"
    /\ verdict = "none"
    /\ exit_code = Running
    /\ render_calls = 0
    /\ rendered_tables = <<>>

(***************************************************************************)
(* main.                                                                    *)
(***************************************************************************)
\* An uncaught exception: the traceback goes to stderr, the status is 1.
Raise(exc) ==
    /\ raised' = exc
    /\ stderr' = <<exc>>
    /\ exit_code' = UncaughtExit
    /\ pc' = "exit"

\* One turn of the for loop: results = results.append(comparer.compare(column)).
Compare ==
    /\ pc = "compare"
    /\ LET r == compare(columns[i])
       IN IF r.raised # "none"
          THEN /\ Raise(r.raised)
               /\ UNCHANGED <<i, results, comparison_tables, stdout>>
          ELSE /\ comparison_tables' = TablesAppend(comparison_tables, r.table)
               /\ stdout' = Append(stdout, [comparison |-> r.table])
               /\ results' = SeriesAppend(results, r.returned)
               /\ i' = i + 1
               /\ pc' = IF i = Len(columns) THEN "render" ELSE "compare"
               /\ UNCHANGED <<raised, stderr, exit_code>>
    /\ UNCHANGED <<previous, current, threshold, column_name, output_file,
                   verdict, render_calls, rendered_tables>>

\* comparer.render_report(args.output): the template may be missing and the
\* output may not be writable.
Render ==
    /\ pc = "render"
    /\ render_calls' = render_calls + 1
    /\ rendered_tables' = comparison_tables
    /\ \E outcome \in {"ok", "TemplateNotFound", "OSError"} :
          IF outcome = "ok"
          THEN /\ output_file' = [written |-> TRUE, tables |-> comparison_tables]
               /\ pc' = "validate"
               /\ UNCHANGED <<raised, stderr, exit_code>>
          ELSE /\ Raise(outcome)
               /\ UNCHANGED output_file
    /\ UNCHANGED <<previous, current, threshold, column_name, i, results,
                   comparison_tables, stdout, verdict>>

\* comparer.validate(results): always ends the process.
Validate ==
    /\ pc = "validate"
    /\ LET v == validate(results, threshold)
       IN /\ verdict' = v.verdict
          /\ stderr' = IF v.arg = None THEN stderr ELSE <<v.arg>>
          /\ exit_code' = SysExit(v.arg)
    /\ stdout' = Append(stdout, [threshold_factor |-> threshold])
    /\ pc' = "exit"
    /\ UNCHANGED <<previous, current, threshold, column_name, i, results,
                   comparison_tables, output_file, raised, render_calls,
                   rendered_tables>>

Next == Compare \/ Render \/ Validate

Spec == Init /\ [][Next]_vars

(***************************************************************************)
(* The properties.                                                          *)
(***************************************************************************)
\* results.array: the ratios validate reads.
Ratios == [j \in DOMAIN results |-> results[j].value]

RECURSIVE TableRatios(_)
\* The Results columns of the tables, one after the other.
TableRatios(tables) ==
    IF tables = <<>> THEN <<>>
    ELSE [j \in DOMAIN Head(tables).body |-> Head(tables).body[j].Results]
         \o TableRatios(Tail(tables))

Titles(tables) == [j \in DOMAIN tables |-> tables[j].title]

BothRead == previous # NoFile /\ current # NoFile

\* The rows of the t-th table compare has appended.
RowsOf(t) == DOMAIN comparison_tables[t].body

\* C1: once validate has decided, the verdict is Pass when every ratio is
\* <= threshold (a ratio equal to the threshold included), Fail when some
\* ratio is > threshold whatever the other ratios are, and Indeterminate
\* when there are ratios and all of them are NaN.
C1_Trichotomy ==
    verdict # "none" =>
        /\ (\A j \in DOMAIN Ratios : FloatLe(Ratios[j], threshold)) => verdict = "Pass"
        /\ (\E j \in DOMAIN Ratios : FloatGt(Ratios[j], threshold)) => verdict = "Fail"
        /\ (Ratios # <<>> /\ \A j \in DOMAIN Ratios : Ratios[j].kind = "nan")
               => verdict = "Indeterminate"

\* C1's case: a ratio above the threshold beside a NaN ratio, decided Fail.
C1_Witness ==
    /\ verdict = "Fail"
    /\ \E j \in DOMAIN Ratios : Ratios[j].kind = "nan"
    /\ \E j \in DOMAIN Ratios : FloatGt(Ratios[j], threshold)

C4_OuterJoin ==
    /\ (BothRead /\ \A c \in DOMAIN columns : columns[c] \in previous.columns \cap current.columns)
       => /\ raised \notin {"FileNotFoundError", "KeyError"}
          /\ pc # "compare" => Titles(comparison_tables) = columns
    /\ \A t \in DOMAIN comparison_tables :
        LET table == comparison_tables[t]
            col == table.title
            both == DOMAIN previous.rows \cap DOMAIN current.rows
            union == DOMAIN previous.rows \cup DOMAIN current.rows
            KeyOf(j) == <<table.body[j].Type, table.body[j].Name>>
        IN (BothRead /\ col \in previous.columns \cap current.columns) =>
            /\ Len(table.body) = Cardinality(union)
            /\ {KeyOf(j) : j \in DOMAIN table.body} = union
            /\ \A j \in DOMAIN table.body :
                 LET row == table.body[j]
                     k == KeyOf(j)
                 IN /\ k \in both =>
                        /\ row.new = current.rows[k][col]
                        /\ row.old = previous.rows[k][col]
                        /\ row.old.n # 0 =>
                             /\ row.Results.kind = "num"
                             /\ row.Results.n * row.old.n = row.new.n * row.Results.d
                    /\ k \in DOMAIN current.rows \ DOMAIN previous.rows =>
                        /\ row.new = current.rows[k][col]
                        /\ row.old = NaN
                        /\ row.Results = NaN
                    /\ k \in DOMAIN previous.rows \ DOMAIN current.rows =>
                        /\ row.new = NaN
                        /\ row.old = previous.rows[k][col]
                        /\ row.Results = NaN

\* C4's case: a table of two rows, one for a key of both reports and one for
\* a key of the current report only.
C4_Witness ==
    /\ BothRead
    /\ Len(comparison_tables) = 1
    /\ Len(comparison_tables[1].body) = 2
    /\ Cardinality(DOMAIN previous.rows) = 1
    /\ DOMAIN previous.rows \subseteq DOMAIN current.rows
    /\ \E j \in 1..2 : comparison_tables[1].body[j].Results.kind = "num"
    /\ \E j \in 1..2 : comparison_tables[1].body[j].old = NaN

\* C5: what validate reads is the ratios of every requested column, in the
\* order of the columns, and a ratio > threshold in any column's table makes
\* the verdict Fail.
C5_AllColumns ==
    /\ pc \in {"render", "validate"} \/ verdict # "none" =>
          Ratios = TableRatios(comparison_tables)
    /\ verdict # "none" =>
          /\ Titles(comparison_tables) = columns
          /\ (\E t \in DOMAIN comparison_tables : \E j \in RowsOf(t) :
                 FloatGt(comparison_tables[t].body[j].Results, threshold))
             => verdict = "Fail"

\* C5's case: two columns, a ratio above the threshold in the first and
\* none in the second, decided Fail.
C5_Witness ==
    /\ verdict = "Fail"
    /\ Len(columns) = 2
    /\ \E j \in RowsOf(1) : FloatGt(comparison_tables[1].body[j].Results, threshold)
    /\ RowsOf(2) # {}
    /\ \A j \in RowsOf(2) : FloatLe(comparison_tables[2].body[j].Results, threshold)

\* C6 as stated: when both reports are read and a requested column is not a
\* column of both, the run never gets past the for loop of main, never takes
\* the Pass branch, and ends with KeyError and a status that is not 0.
C6_MissingColumnFails ==
    (BothRead /\ \E j \in DOMAIN columns :
                    columns[j] \notin previous.columns \cap current.columns)
    => /\ verdict # "Pass"
       /\ pc \notin {"render", "validate"}
       /\ pc = "exit" => raised = "KeyError" /\ exit_code # 0

\* C7: ratios with a NaN among them, the others all <= threshold, are decided
\* Indeterminate; so are previous [(k1, 1)] and current [(k1, 1), (k2, 2)]
\* (the spec's rows, scaled) at the threshold 1.0, whose ratios are 1.0 and NaN.
C7_NaNContamination ==
    /\ (/\ verdict # "none"
        /\ \E j \in DOMAIN Ratios : Ratios[j].kind = "nan"
        /\ \A j \in DOMAIN Ratios : Ratios[j].kind = "nan" \/ FloatLe(Ratios[j], threshold))
       => verdict = "Indeterminate"
    /\ (/\ verdict # "none"
        /\ column_name = A
        /\ threshold = Num(1, 1)
        /\ previous = [columns |-> {A}, rows |-> (KeyList[1] :> (A :> Num(1, 1)))]
        /\ current = [columns |-> {A},
                      rows |-> (KeyList[1] :> (A :> Num(1, 1))) @@ (KeyList[2] :> (A :> Num(2, 1)))])
       => Ratios = <<Num(1, 1), NaN>> /\ verdict = "Indeterminate"

\* C7's case: the ratios 1.0 and NaN at the threshold 1.0, decided.
C7_Witness ==
    /\ verdict # "none"
    /\ threshold = Num(1, 1)
    /\ Ratios = <<Num(1, 1), NaN>>

\* C8 as stated: when validate takes its third branch no ratio is a defined
\* number.
C8_OnlyNaN ==
    verdict = "Indeterminate" => \A j \in DOMAIN Ratios : Ratios[j].kind = "nan"

\* C8 as amended: when validate takes its third branch, no ratio is
\* > threshold and some ratio is neither <= nor > threshold: with a threshold
\* that is a number, some ratio is NaN.  Ratios that are defined and
\* <= threshold may be there too.
C8_SomeNaN ==
    verdict = "Indeterminate" =>
        /\ \A j \in DOMAIN Ratios : ~ FloatGt(Ratios[j], threshold)
        /\ \E j \in DOMAIN Ratios :
              ~ FloatLe(Ratios[j], threshold) /\ ~ FloatGt(Ratios[j], threshold)
        /\ threshold.kind # "nan" => \E j \in DOMAIN Ratios : Ratios[j].kind = "nan"

\* C8's case: the third branch taken with a defined ratio among the ratios.
C8_Witness ==
    /\ verdict = "Indeterminate"
    /\ threshold.kind # "nan"
    /\ \E j \in DOMAIN Ratios : Ratios[j].kind = "num"

\* C9: render_report is called at most once, and exactly once in a run whose
\* compare calls all returned; it is called after the last compare and before
\* validate, with one table per requested column, in the order of the
\* columns and titled with them; what it wrote is what the file holds
\* whatever validate decides.
C9_RenderOnce ==
    /\ render_calls <= 1
    /\ pc = "compare" => render_calls = 0 /\ verdict = "none"
    /\ pc = "render" =>
          /\ render_calls = 0
          /\ verdict = "none"
          /\ i = Len(columns) + 1
          /\ Titles(comparison_tables) = columns
    /\ pc = "validate" => render_calls = 1 /\ verdict = "none"
    /\ pc = "exit" /\ raised \notin {"FileNotFoundError", "KeyError"} => render_calls = 1
    /\ verdict # "none" => render_calls = 1
    /\ render_calls = 1 =>
          /\ Titles(rendered_tables) = columns
          /\ rendered_tables = comparison_tables
          /\ output_file # NotWritten => output_file.tables = rendered_tables

\* C9's case: two columns compared and the report written, before validate.
C9_Witness ==
    /\ pc = "validate"
    /\ Len(columns) = 2
    /\ render_calls = 1
    /\ output_file # NotWritten

\* C10: when validate reads no ratio at all it takes its first branch: the
\* verdict is Pass and the status 0.
C10_EmptyPasses ==
    verdict # "none" /\ Ratios = <<>> => verdict = "Pass" /\ exit_code = 0

\* C10's case: two reports without rows, two columns compared, decided Pass.
C10_Witness ==
    /\ verdict = "Pass"
    /\ Len(columns) = 2
    /\ BothRead
    /\ DOMAIN previous.rows = {}
    /\ DOMAIN current.rows = {}
    /\ Ratios = <<>>


====
